---------------------------- MODULE Spec2Model ----------------------------
(***************************************************************************)
(* A model of LICO's host-side stages:                                     *)
(*   - h_BMP_BIT / h_iBMP_BIT (include/h_BMP_BIT.h): header validation and *)
(*     neutralisation, row/channel differencing with TCMS, the channel     *)
(*     deinterleave/transpose into the scratch planes, and the 8x8         *)
(*     bit-matrix transposition;                                           *)
(*   - h_ZEencode / h_ZEdecode (the zero-elimination codec).               *)
(* Buffers are functions from 0-based indices to bytes.  int32_t values    *)
(* are integers in -2^31 .. 2^31-1 and every int32_t operation of the      *)
(* header arithmetic wraps modulo 2^32.  A uint64_t is a function from     *)
(* bit positions 0..63 to BOOLEAN.                                         *)
(***************************************************************************)
EXTENDS Integers, Sequences, FiniteSets, TLC

VARIABLES
  pc,        \* position of the modelled caller
  size,      \* h_BMP_BIT / h_iBMP_BIT: the size argument
  data,      \* h_BMP_BIT / h_iBMP_BIT: the buffer
  tmp,       \* the scratch planes (byte view of temp) of the running / last call
  warned,    \* the last call printed a warning
  orig,      \* the buffer as the caller first supplied it
  before,    \* the buffer and size on entry to the last call
  rowx,      \* row-parallel stage C: per row, the next column (-1: not started)
  rowp,      \* row-parallel stage C: per row, the predictor (p0, p1, p2)
  x64,       \* bit-matrix transposition of a single word: the input word
  y64,       \* bit-matrix transposition of a single word: the result
  bits,      \* zero elimination: bits per word (sizeof(T) * 8)
  check,     \* zero elimination: the template parameter check
  inbuf,     \* zero elimination: the array in
  insize,    \* zero elimination: insize / decsize
  dataout,   \* zero elimination: the dense output array
  datasize,  \* zero elimination: the in/out argument datasize
  cap,       \* zero elimination: datasize on entry to h_ZEencode
  bmout,     \* zero elimination: the bitmap array
  ret,       \* zero elimination: value returned by h_ZEencode
  out,       \* zero elimination: the output array of h_ZEdecode
  inread,    \* zero elimination: the indices of in read by h_ZEencode
  bmread     \* zero elimination: the indices of bmin read by h_ZEdecode

vars == << pc, size, data, tmp, warned, orig, before, rowx, rowp, x64, y64,
           bits, check, inbuf, insize, dataout, datasize, cap, bmout, ret, out,
           inread, bmread >>

bmpVars == << size, data, tmp, warned, orig, before >>
parVars == << rowx, rowp >>
bitVars == << x64, y64 >>
zeVars  == << bits, check, inbuf, insize, dataout, datasize, cap, bmout, ret, out,
              inread, bmread >>

(***************************************************************************)
(* Bounds of the model.                                                    *)
(***************************************************************************)
MaxW == 4
MaxH == 3
MaxPixels == 6

\* Marks a byte of the scratch allocation (new uint64_t[...]) or a word of an
\* output array that has not been written.
Uninit == -1

(***************************************************************************)
(* int32_t arithmetic, wrapping modulo 2^32.                               *)
(***************************************************************************)
Pow2(k) == 2 ^ k

\* The function f with its values computed once (TLC evaluates a function
\* expression anew at every application otherwise).
Force(f) == f @@ << >>

\* Byte k (0 = least significant) of the two's complement representation.
ByteOf32(v, k) == (v \div Pow2(8 * k)) % 256

\* The int32_t with the given four bytes, b0 least significant.
Int32(b0, b1, b2, b3) ==
  b0 + 256 * b1 + 65536 * b2 + 16777216 * (IF b3 >= 128 THEN b3 - 256 ELSE b3)

\* The low and high 16-bit halves of a sum or difference, recombined.
Halves32(lo, hi) ==
  LET h == (hi + (lo \div 65536)) % 65536
  IN  (IF h >= 32768 THEN h - 65536 ELSE h) * 65536 + (lo % 65536)

Add32(a, b) == Halves32((a % 65536) + (b % 65536), (a \div 65536) + (b \div 65536))

Sub32(a, b) == Halves32((a % 65536) - (b % 65536), (a \div 65536) - (b \div 65536))

Mul32(a, b) ==
  LET A(i) == ByteOf32(a, i)
      B(i) == ByteOf32(b, i)
      c0 == A(0) * B(0)
      c1 == A(0) * B(1) + A(1) * B(0) + (c0 \div 256)
      c2 == A(0) * B(2) + A(1) * B(1) + A(2) * B(0) + (c1 \div 256)
      c3 == A(0) * B(3) + A(1) * B(2) + A(2) * B(1) + A(3) * B(0) + (c2 \div 256)
  IN  Int32(c0 % 256, c1 % 256, c2 % 256, c3 % 256)

\* x & ~3
AndNot3(x) == Sub32(x, x % 4)

(***************************************************************************)
(* Little-endian helpers.                                                  *)
(***************************************************************************)
h_BMP_BIT_get2(d, o) == d[o] + 256 * d[o + 1]

h_BMP_BIT_get4(d, o) == Int32(d[o], d[o + 1], d[o + 2], d[o + 3])

h_BMP_BIT_set2(d, o, val) ==
  [d EXCEPT ![o] = ByteOf32(val, 0), ![o + 1] = ByteOf32(val, 1)]

h_BMP_BIT_set4(d, o, val) ==
  [d EXCEPT ![o] = ByteOf32(val, 0), ![o + 1] = ByteOf32(val, 1),
            ![o + 2] = ByteOf32(val, 2), ![o + 3] = ByteOf32(val, 3)]

\* data[o] = v, the value truncated to a byte.
SetByte(d, o, v) == [d EXCEPT ![o] = v % 256]

(***************************************************************************)
(* Geometry: pad, width (the row stride), newsize.                         *)
(***************************************************************************)
PadOf(w) == Sub32(AndNot3(Add32(Mul32(w, 3), 3)), Mul32(w, 3))

WidthOf(w) == Add32(Mul32(w, 3), PadOf(w))

NewsizeOf(w, h) == Mul32(w, h)

\* n / 8 on int32_t: the quotient truncated towards zero.
Div8(n) == IF n < 0 THEN (n + 7) \div 8 ELSE n \div 8

\* Bytes of the scratch allocation: (newsize * 3 + 7) / 8 words of 8 bytes,
\* the count computed on int32_t.  A negative count is a failed allocation.
TempBytes(newsize) == 8 * Div8(Add32(Mul32(newsize, 3), 7))


(***************************************************************************)
(* Header validation and neutralisation (forward).                         *)
(***************************************************************************)
\* Supported without the test of the number of colors (offset 46).
Supported_NoColors(sz, d) ==
  LET w == h_BMP_BIT_get4(d, 18)
      h == h_BMP_BIT_get4(d, 22)
      width == WidthOf(w)
  IN  /\ d[0] = 66
      /\ d[1] = 77
      /\ h_BMP_BIT_get4(d, 2) = Add32(54, Mul32(h, width))
      /\ h_BMP_BIT_get4(d, 10) = 54
      /\ h_BMP_BIT_get4(d, 14) = 40
      /\ h_BMP_BIT_get2(d, 26) = 1
      /\ h_BMP_BIT_get2(d, 28) = 24
      /\ h_BMP_BIT_get4(d, 30) = 0
      /\ h_BMP_BIT_get4(d, 34) = Mul32(h, width)
      /\ h_BMP_BIT_get4(d, 50) = 0
      /\ sz = Add32(54, Mul32(h, width))
      /\ w >= 1
      /\ h >= 1

\* The condition under which h_BMP_BIT transforms the buffer: the negation
\* of the disjunction that leads to the warning.  Called with sz >= 54.
Supported(sz, d) ==
  LET w == h_BMP_BIT_get4(d, 18)
      h == h_BMP_BIT_get4(d, 22)
      width == WidthOf(w)
  IN  /\ d[0] = 66
      /\ d[1] = 77
      /\ h_BMP_BIT_get4(d, 2) = Add32(54, Mul32(h, width))
      /\ h_BMP_BIT_get4(d, 10) = 54
      /\ h_BMP_BIT_get4(d, 14) = 40
      /\ h_BMP_BIT_get2(d, 26) = 1
      /\ h_BMP_BIT_get2(d, 28) = 24
      /\ h_BMP_BIT_get4(d, 30) = 0
      /\ h_BMP_BIT_get4(d, 34) = Mul32(h, width)
      /\ h_BMP_BIT_get4(d, 46) = 0
      /\ h_BMP_BIT_get4(d, 50) = 0
      /\ sz = Add32(54, Mul32(h, width))
      /\ w >= 1
      /\ h >= 1

\* data[o] = data[o] - v
SubByteAt(d, o, v) == SetByte(d, o, d[o] - v)

\* h_BMP_BIT_set2(&data[o], h_BMP_BIT_get2(&data[o]) - v)
Sub2At(d, o, v) == h_BMP_BIT_set2(d, o, h_BMP_BIT_get2(d, o) - v)

\* h_BMP_BIT_set4(&data[o], h_BMP_BIT_get4(&data[o]) - v)
Sub4At(d, o, v) == h_BMP_BIT_set4(d, o, Sub32(h_BMP_BIT_get4(d, o), v))

\* vertical resolution: data[42..45] minus the horizontal resolution data[38..41]
SubXres(d) == Sub4At(d, 42, h_BMP_BIT_get4(d, 38))

\* The nine stores of the neutralisation in program order, innermost first;
\* hw is h * width.
NeutraliseFields(d, hw) ==
  SubXres(
    Sub4At(
      Sub2At(
        Sub2At(
          Sub4At(
            Sub4At(
              Sub4At(
                SubByteAt(
                  SubByteAt(d, 0, 66),
                  1, 77),
                2, Add32(hw, 54)),
              10, 54),
            14, 40),
          26, 1),
        28, 24),
      34, hw))

\* The header assignments of the forward stage, in program order.
Neutralise(d) ==
  NeutraliseFields(d, Mul32(h_BMP_BIT_get4(d, 22), WidthOf(h_BMP_BIT_get4(d, 18))))

(***************************************************************************)
(* Stage C (forward): pixel x/y DIFF, color-channel DIFF, TCMS, and the    *)
(* transposed write into the three scratch planes.                         *)
(***************************************************************************)
\* bmp = &data[54]
Bmp(i) == 54 + i

\* ((v << 1) ^ ((v << 24) >> 31)) & 0xff: the low eight bits of v shifted left
\* by one, complemented when bit 7 of v is set.
\* TCMS of the value clamped to -128 .. 127 instead of reduced modulo 256.
TCMS_Saturating(v) ==
  LET c == IF v > 127 THEN 127 ELSE IF v < -128 THEN -128 ELSE v
  IN  IF c < 0 THEN -2 * c - 1 ELSE 2 * c

TCMS(v) ==
  LET u == v % 256
      s == (2 * u) % 256
  IN  IF u >= 128 THEN 255 - s ELSE s

\* The predictor a row starts with: zero, or the first pixel of row y - 1.
RowPredictor(d, width, y) ==
  IF y > 0
    THEN << d[Bmp((y - 1) * width + 0)], d[Bmp((y - 1) * width + 1)],
            d[Bmp((y - 1) * width + 2)] >>
    ELSE << 0, 0, 0 >>

ReadPixel(d, width, y, x) ==
  << d[Bmp(y * width + x * 3 + 0)], d[Bmp(y * width + x * 3 + 1)],
     d[Bmp(y * width + x * 3 + 2)] >>

\* The three values written for a pixel n with predictor p.
Residual(n, p) ==
  LET v1 == n[2] - p[2]
      v0 == (n[1] - p[1]) - v1
      v2 == (n[3] - p[3]) - v1
  IN  << TCMS(v0), TCMS(v1), TCMS(v2) >>

\* TmpIndex without the column stride h.
TmpIndex_NoStride(k, newsize, y, x, h) == k * newsize + y + x

\* Index of channel k's value for pixel (y, x) in the scratch planes.
TmpIndex(k, newsize, y, x, h) == k * newsize + y + x * h

WriteResidual(t, newsize, y, x, h, v) ==
  LET t0 == [t  EXCEPT ![TmpIndex(0, newsize, y, x, h)] = v[1]]
      t1 == [t0 EXCEPT ![TmpIndex(1, newsize, y, x, h)] = v[2]]
  IN  [t1 EXCEPT ![TmpIndex(2, newsize, y, x, h)] = v[3]]

\* The loop nest of stage C run sequentially, y outer and x inner, from
\* iteration n = y * w + x on, with predictor p carried inside a row.
RECURSIVE StageCFrom(_, _, _, _, _, _, _)
StageCFrom(n, p, t, d, w, h, width) ==
  IF n >= w * h THEN t
  ELSE LET y == n \div w
           x == n % w
           pp == IF x = 0 THEN RowPredictor(d, width, y) ELSE p
           px == ReadPixel(d, width, y, x)
       IN  StageCFrom(n + 1, px,
                      WriteResidual(t, w * h, y, x, h, Residual(px, pp)),
                      d, w, h, width)

\* temp as allocated: nothing written yet.
FreshTemp(newsize) == Force([i \in 0 .. TempBytes(newsize) - 1 |-> Uninit])

StageC(d, w, h, width) ==
  StageCFrom(0, << 0, 0, 0 >>, FreshTemp(NewsizeOf(w, h)), d, w, h, width)

(***************************************************************************)
(* Stage D: the 8x8 bit-matrix transposition on 64-bit words.              *)
(***************************************************************************)
Bit(b, k) == (b \div Pow2(k)) % 2 = 1

\* The uint64_t whose bytes, least significant first, are b[0..7].
WordOf(b) == Force([n \in 0 .. 63 |-> Bit(b[n \div 8], n % 8)])

\* (byte)(x >> (i * 8))
ByteOfWord(x, i) ==
  LET v(k) == IF x[8 * i + k] THEN Pow2(k) ELSE 0
  IN  v(0) + v(1) + v(2) + v(3) + v(4) + v(5) + v(6) + v(7)

Shr(x, k) == Force([n \in 0 .. 63 |-> IF n + k <= 63 THEN x[n + k] ELSE FALSE])

Shl(x, k) == Force([n \in 0 .. 63 |-> IF n - k >= 0 THEN x[n - k] ELSE FALSE])

Xor(x, y) == Force([n \in 0 .. 63 |-> x[n] # y[n]])

And(x, y) == Force([n \in 0 .. 63 |-> x[n] /\ y[n]])

\* MaskAA with the other bit of every pair: 0x0055005500550055.
MaskAA_55 == WordOf([i \in 0 .. 7 |-> IF i % 2 = 0 THEN 85 ELSE 0])

\* 0x00AA00AA00AA00AA, 0x0000CCCC0000CCCC, 0x00000000F0F0F0F0
MaskAA == WordOf([i \in 0 .. 7 |-> IF i % 2 = 0 THEN 170 ELSE 0])

MaskCC == WordOf([i \in 0 .. 7 |-> IF i % 4 < 2 THEN 204 ELSE 0])

MaskF0 == WordOf([i \in 0 .. 7 |-> IF i < 4 THEN 240 ELSE 0])

\* t = (x ^ (x >> k)) & m;  x = x ^ t ^ (t << k);
Layer(x, k, m) ==
  LET t == And(Xor(x, Shr(x, k)), m)
  IN  Xor(Xor(x, t), Shl(t, k))

Butterfly(x) == Layer(Layer(Layer(x, 7, MaskAA), 14, MaskCC), 28, MaskF0)

\* SlabIndex with the eight bytes of a group stored next to each other.
SlabIndex_Contiguous(g, i, groups) == 8 * g + i

\* Where byte i of the transposed word of group g goes: pos / 8 + i * (esize / 8).
SlabIndex(g, i, groups) == g + i * groups

\* The eight stores of one iteration of the BIT_1 loop.
RECURSIVE StoreWord(_, _, _, _, _)
StoreWord(d, x, g, i, groups) ==
  IF i >= 8 THEN d
  ELSE StoreWord([d EXCEPT ![Bmp(SlabIndex(g, i, groups))] = ByteOfWord(x, i)],
                 x, g, i + 1, groups)

\* The BIT_1 loop from group g on.
RECURSIVE StageDFrom(_, _, _, _)
StageDFrom(g, d, t, groups) ==
  IF g >= groups THEN d
  ELSE LET x == Butterfly(WordOf([i \in 0 .. 7 |-> t[8 * g + i]]))
       IN  StageDFrom(g + 1, StoreWord(d, x, g, 0, groups), t, groups)

\* copy leftover bytes: bmp[csize - extra + i] = tmp[csize - extra + i]
CopyLeftover(d, t, csize, extra) ==
  Force([i \in DOMAIN d |->
           IF i >= Bmp(csize - extra) /\ i < Bmp(csize) THEN t[i - 54] ELSE d[i]])

\* handle padding: bmp[i] = 0 for newsize * 3 <= i < width * h
ZeroTail(d, csize, total) ==
  Force([i \in DOMAIN d |-> IF i >= Bmp(csize) /\ i < Bmp(total) THEN 0 ELSE d[i]])

(***************************************************************************)
(* h_BMP_BIT: what a call leaves in the buffer and in the scratch planes.  *)
(***************************************************************************)
NoTemp == << >>

\* BIT_1, the leftover copy and the padding, from the neutralised buffer dn
\* and the scratch planes t.
Layout(dn, t, w, h, width) ==
  LET csize == NewsizeOf(w, h) * 3
      extra == csize % 8
  IN  ZeroTail(CopyLeftover(StageDFrom(0, dn, t, (csize - extra) \div 8),
                            t, csize, extra),
               csize, width * h)

\* What the call leaves once the scratch planes t are filled.
Transformed(dn, t, w, h, width) ==
  [data |-> Layout(dn, t, w, h, width), tmp |-> t, warned |-> FALSE]

\* The else branch of the validator, from the neutralised buffer dn on.
Transform(dn, w, h, width) == Transformed(dn, StageC(dn, w, h, width), w, h, width)

h_BMP_BIT(sz, d) ==
  IF sz < 54 THEN [data |-> d, tmp |-> NoTemp, warned |-> TRUE]
  ELSE IF ~Supported(sz, d) THEN [data |-> d, tmp |-> NoTemp, warned |-> TRUE]
  ELSE Transform(Neutralise(d), h_BMP_BIT_get4(d, 18), h_BMP_BIT_get4(d, 22),
                 WidthOf(h_BMP_BIT_get4(d, 18)))

(***************************************************************************)
(* h_iBMP_BIT: the inverse stage.                                          *)
(***************************************************************************)
\* The condition under which h_iBMP_BIT transforms the buffer.  Called with
\* sz >= 54.
iSupported(sz, d) ==
  /\ d[0] = 0
  /\ d[1] = 0
  /\ h_BMP_BIT_get4(d, 2) = 0
  /\ h_BMP_BIT_get4(d, 10) = 0
  /\ h_BMP_BIT_get4(d, 14) = 0
  /\ h_BMP_BIT_get2(d, 26) = 0
  /\ h_BMP_BIT_get2(d, 28) = 0
  /\ h_BMP_BIT_get4(d, 30) = 0
  /\ h_BMP_BIT_get4(d, 34) = 0
  /\ h_BMP_BIT_get4(d, 46) = 0
  /\ h_BMP_BIT_get4(d, 50) = 0
  /\ h_BMP_BIT_get4(d, 18) >= 1
  /\ h_BMP_BIT_get4(d, 22) >= 1

\* data[o] = data[o] + v
AddByteAt(d, o, v) == SetByte(d, o, d[o] + v)

\* h_BMP_BIT_set2(&data[o], h_BMP_BIT_get2(&data[o]) + v)
Add2At(d, o, v) == h_BMP_BIT_set2(d, o, h_BMP_BIT_get2(d, o) + v)

\* h_BMP_BIT_set4(&data[o], h_BMP_BIT_get4(&data[o]) + v)
Add4At(d, o, v) == h_BMP_BIT_set4(d, o, Add32(h_BMP_BIT_get4(d, o), v))

\* vertical resolution: data[42..45] plus the horizontal resolution data[38..41]
AddXres(d) == Add4At(d, 42, h_BMP_BIT_get4(d, 38))

\* The nine stores of the restoration in program order, innermost first;
\* hw is h * width.
RestoreFields(d, hw) ==
  AddXres(
    Add4At(
      Add2At(
        Add2At(
          Add4At(
            Add4At(
              Add4At(
                AddByteAt(
                  AddByteAt(d, 0, 66),
                  1, 77),
                2, Add32(hw, 54)),
              10, 54),
            14, 40),
          26, 1),
        28, 24),
      34, hw))

\* The header assignments of the inverse stage, in program order.
Restore(d) ==
  RestoreFields(d, Mul32(h_BMP_BIT_get4(d, 22), WidthOf(h_BMP_BIT_get4(d, 18))))

\* The iBIT_1 loop from group g on: gather the eight strided bytes into a word,
\* run the butterfly, store the word at temp[pos / 8].
RECURSIVE iStageDFrom(_, _, _, _)
iStageDFrom(g, t, d, groups) ==
  IF g >= groups THEN t
  ELSE LET x == Butterfly(WordOf([i \in 0 .. 7 |-> d[Bmp(SlabIndex(g, i, groups))]]))
       IN  iStageDFrom(g + 1,
                       Force([k \in DOMAIN t |->
                                IF k >= 8 * g /\ k < 8 * g + 8
                                  THEN ByteOfWord(x, k - 8 * g) ELSE t[k]]),
                       d, groups)

\* copy leftover bytes: tmp[csize - extra + i] = bmp[csize - extra + i]
iCopyLeftover(t, d, csize, extra) ==
  Force([k \in DOMAIN t |-> IF k >= csize - extra /\ k < csize THEN d[Bmp(k)] ELSE t[k]])

\* (v >> 1) ^ ((v << 31) >> 31) for a byte v: v / 2, complemented when v is odd.
iTCMS(v) == IF v % 2 = 1 THEN -(v \div 2) - 1 ELSE v \div 2

\* The values of a pixel from its three scratch bytes and the previous values.
Rebuild(t, newsize, y, x, h, prev) ==
  LET r1 == iTCMS(t[TmpIndex(1, newsize, y, x, h)])
      r0 == iTCMS(t[TmpIndex(0, newsize, y, x, h)]) + r1
      r2 == iTCMS(t[TmpIndex(2, newsize, y, x, h)]) + r1
  IN  << r0 + prev[1], r1 + prev[2], r2 + prev[3] >>

\* bmp[y * width + x * 3 + c] = v[c], each truncated to a byte.
WritePixel(d, width, y, x, v) ==
  LET d0 == SetByte(d,  Bmp(y * width + x * 3 + 0), v[1])
      d1 == SetByte(d0, Bmp(y * width + x * 3 + 1), v[2])
  IN  SetByte(d1, Bmp(y * width + x * 3 + 2), v[3])

\* The first decode loop: column 0 of every row, prev carried down the rows.
RECURSIVE FirstColumnFrom(_, _, _, _, _, _, _)
FirstColumnFrom(y, prev, d, t, w, h, width) ==
  IF y >= h THEN d
  ELSE LET v == Rebuild(t, w * h, y, 0, h, prev)
       IN  FirstColumnFrom(y + 1, v, WritePixel(d, width, y, 0, v), t, w, h, width)

\* The second decode loop from iteration (y, x) on, 1 <= x; prev is read from
\* the buffer at the start of a row and carried along it.
RECURSIVE RowsFrom(_, _, _, _, _, _, _, _)
RowsFrom(y, x, prev, d, t, w, h, width) ==
  IF y >= h THEN d
  ELSE IF x >= w THEN RowsFrom(y + 1, 1, << 0, 0, 0 >>, d, t, w, h, width)
  ELSE LET pp == IF x = 1 THEN ReadPixel(d, width, y, 0) ELSE prev
           v == Rebuild(t, w * h, y, x, h, pp)
       IN  RowsFrom(y, x + 1, v, WritePixel(d, width, y, x, v), t, w, h, width)

\* set padding bytes (if any) to zero
ZeroPadding(d, w, h, width, pad) ==
  IF pad > 0
    THEN Force([i \in DOMAIN d |->
                  IF /\ i >= 54
                     /\ i < Bmp(h * width)
                     /\ (i - 54) % width >= w * 3
                    THEN 0 ELSE d[i]])
    ELSE d

\* iBIT_1 and the leftover copy: the scratch planes, from the restored
\* buffer dr.
iLayout(dr, w, h) ==
  LET csize == NewsizeOf(w, h) * 3
      extra == csize % 8
  IN  iCopyLeftover(iStageDFrom(0, FreshTemp(NewsizeOf(w, h)), dr, (csize - extra) \div 8),
                    dr, csize, extra)

\* The two decode loops and the padding, from the scratch planes t.
iTransformed(dr, t, w, h, width) ==
  [data |-> ZeroPadding(RowsFrom(0, 1, << 0, 0, 0 >>,
                                 FirstColumnFrom(0, << 0, 0, 0 >>, dr, t, w, h, width),
                                 t, w, h, width),
                        w, h, width, PadOf(w)),
   tmp |-> t, warned |-> FALSE]

\* The else branch of the check, from the restored buffer dr on.
iTransform(dr, w, h, width) == iTransformed(dr, iLayout(dr, w, h), w, h, width)

h_iBMP_BIT(sz, d) ==
  IF sz < 54 THEN [data |-> d, tmp |-> NoTemp, warned |-> TRUE]
  ELSE IF ~iSupported(sz, d) THEN [data |-> d, tmp |-> NoTemp, warned |-> TRUE]
  ELSE iTransform(Restore(d), h_BMP_BIT_get4(d, 18), h_BMP_BIT_get4(d, 22),
                  WidthOf(h_BMP_BIT_get4(d, 18)))

(***************************************************************************)
(* Input buffers.  A header is a record of its fields; a buffer is built   *)
(* from a header, a length, an image (pixel index y * w + x to a BGR       *)
(* triple) and the value of the row padding bytes.                         *)
(***************************************************************************)
\* Byte i < 54 of the header with fields f, at the offsets the stages read.
HeaderByte(f, i) ==
  CASE i = 0  -> f.b
    [] i = 1  -> f.m
    [] i < 6  -> ByteOf32(f.fsize, i - 2)
    [] i < 10 -> ByteOf32(f.res, i - 6)
    [] i < 14 -> ByteOf32(f.off, i - 10)
    [] i < 18 -> ByteOf32(f.hsize, i - 14)
    [] i < 22 -> ByteOf32(f.w, i - 18)
    [] i < 26 -> ByteOf32(f.h, i - 22)
    [] i < 28 -> ByteOf32(f.planes, i - 26)
    [] i < 30 -> ByteOf32(f.bpp, i - 28)
    [] i < 34 -> ByteOf32(f.comp, i - 30)
    [] i < 38 -> ByteOf32(f.isize, i - 34)
    [] i < 42 -> ByteOf32(f.xres, i - 38)
    [] i < 46 -> ByteOf32(f.yres, i - 42)
    [] i < 50 -> ByteOf32(f.ncol, i - 46)
    [] OTHER  -> ByteOf32(f.icol, i - 50)

\* Byte j of the pixel region of a w x h image: BGR triplets, then padding.
PixelByte(w, h, img, padv, j) ==
  LET width == WidthOf(w)
  IN  IF w >= 1 /\ h >= 1 /\ j < h * width
        THEN IF j % width < 3 * w
               THEN img[(j \div width) * w + ((j % width) \div 3)][((j % width) % 3) + 1]
               ELSE padv
        ELSE 0

Buffer(f, len, img, padv) ==
  Force([i \in 0 .. len - 1 |->
           IF i < 54 THEN HeaderByte(f, i) ELSE PixelByte(f.w, f.h, img, padv, i - 54)])

\* The header of the supported subset for a w x h image.
ValidHeader(w, h) ==
  [b |-> 66, m |-> 77, fsize |-> Add32(54, Mul32(h, WidthOf(w))), res |-> 0,
   off |-> 54, hsize |-> 40, w |-> w, h |-> h, planes |-> 1, bpp |-> 24,
   comp |-> 0, isize |-> Mul32(h, WidthOf(w)), xres |-> 2835, yres |-> 2835,
   ncol |-> 0, icol |-> 0]

Pixels == { << 255, 0, 255 >>, << 0, 255, 0 >>, << 10, 20, 30 >> }

PadVals == { 0, 171 }

Dims == { d \in (1 .. MaxW) \X (1 .. MaxH) : d[1] * d[2] <= MaxPixels }

\* Width/height pairs outside the subset whose size equation still balances.
NoDims == { << 0, 1 >>, << 1, 0 >>, << 0, 0 >>, << -1, -1 >>, << -1, 1 >> }

\* Headers that differ from the valid one in one field.
Variants(f) ==
     { [f EXCEPT !.b = v] : v \in { 0, 67 } }
  \cup { [f EXCEPT !.m = v] : v \in { 0, 66 } }
  \cup { [f EXCEPT !.fsize = v] : v \in { 0, f.fsize - 1, f.fsize + 256 } }
  \cup { [f EXCEPT !.res = v] : v \in { 1, 65536, -1 } }
  \cup { [f EXCEPT !.off = v] : v \in { 0, 55, 54 + 65536 } }
  \cup { [f EXCEPT !.hsize = v] : v \in { 0, 12, 124 } }
  \cup { [f EXCEPT !.planes = v] : v \in { 0, 2, 257 } }
  \cup { [f EXCEPT !.bpp = v] : v \in { 0, 8, 32, 280 } }
  \cup { [f EXCEPT !.comp = v] : v \in { 1, 3, 16777216 } }
  \cup { [f EXCEPT !.isize = v] : v \in { 0, f.isize + 1 } }
  \cup { [f EXCEPT !.ncol = v] : v \in { 1, 256 } }
  \cup { [f EXCEPT !.icol = v] : v \in { 1, -1 } }
  \cup { [f EXCEPT !.xres = v[1], !.yres = v[2]] :
           v \in { << 0, 0 >>, << 2835, 2834 >>, << 1, -2147483647 - 1 >>,
                   << -1, 2147483647 >> } }

Flat(w, h, c) == [n \in 0 .. w * h - 1 |-> c]

\* What the caller may hand to a stage.
IsInput(buf) ==
  \/ \* the supported subset, every image over Pixels
     \E d \in Dims : \E img \in [0 .. d[1] * d[2] - 1 -> Pixels] : \E padv \in PadVals :
       buf = Buffer(ValidHeader(d[1], d[2]), 54 + d[2] * WidthOf(d[1]), img, padv)
  \/ \* one header field off
     \E d \in Dims : \E f \in Variants(ValidHeader(d[1], d[2])) :
       buf = Buffer(f, 54 + d[2] * WidthOf(d[1]), Flat(d[1], d[2], << 10, 20, 30 >>), 0)
  \/ \* the buffer longer or shorter than the header declares
     \E d \in Dims : \E k \in { -1, 1, 4 } :
       buf = Buffer(ValidHeader(d[1], d[2]), 54 + d[2] * WidthOf(d[1]) + k,
                    Flat(d[1], d[2], << 10, 20, 30 >>), 0)
  \/ \* width or height below 1
     \E d \in NoDims : buf = Buffer(ValidHeader(d[1], d[2]), 54, << >>, 0)
  \/ \* fewer than 54 bytes
     \E len \in { 0, 1, 53 } :
       buf = Buffer(ValidHeader(1, 1), len, Flat(1, 1, << 0, 0, 0 >>), 0)

(***************************************************************************)
(* Specification SpecBMP: a caller hands a buffer to h_BMP_BIT and then to *)
(* h_iBMP_BIT, or to h_iBMP_BIT alone.                                     *)
(***************************************************************************)
ParIdle == rowx = << >> /\ rowp = << >>

BitIdle == x64 = << >> /\ y64 = << >>

ZeIdle ==
  /\ bits = 0 /\ check = FALSE /\ inbuf = << >> /\ insize = 0
  /\ dataout = << >> /\ datasize = 0 /\ cap = 0 /\ bmout = << >> /\ ret = FALSE
  /\ out = << >> /\ inread = {} /\ bmread = {}

BmpIdle ==
  /\ size = 0 /\ data = << >> /\ tmp = NoTemp /\ warned = FALSE
  /\ orig = << >> /\ before = << >>

\* Number of bytes of a buffer.
Length(d) == Cardinality(DOMAIN d)

InitBMP ==
  /\ pc = "input"
  /\ IsInput(data)
  /\ size = Length(data)
  /\ orig = data
  /\ before = data
  /\ tmp = NoTemp
  /\ warned = FALSE
  /\ ParIdle /\ BitIdle /\ ZeIdle

\* h_BMP_BIT(size, data)
Encode ==
  /\ pc = "input"
  /\ LET r == h_BMP_BIT(size, data)
     IN  /\ data' = r.data
         /\ tmp' = r.tmp
         /\ warned' = r.warned
  /\ before' = data
  /\ pc' = "encoded"
  /\ UNCHANGED << size, orig, parVars, bitVars, zeVars >>

\* h_iBMP_BIT(size, data), on the caller's buffer or on what h_BMP_BIT left.
Decode ==
  /\ pc \in { "input", "encoded" }
  /\ LET r == h_iBMP_BIT(size, data)
     IN  /\ data' = r.data
         /\ tmp' = r.tmp
         /\ warned' = r.warned
  /\ before' = data
  /\ pc' = IF pc = "encoded" THEN "roundtrip" ELSE "decoded"
  /\ UNCHANGED << size, orig, parVars, bitVars, zeVars >>

NextBMP == Encode \/ Decode

SpecBMP == InitBMP /\ [][NextBMP]_vars

(***************************************************************************)
(* Zero elimination: h_ZEencode and h_ZEdecode.                            *)
(* An array is a function on its valid indices and one guard index on      *)
(* each side that the caller does not own; Uninit marks a word nobody has  *)
(* written.                                                                *)
(***************************************************************************)
\* num = (insize + bits - 1) / bits
NumOf(n, b) == (n + b - 1) \div b

\* An array with valid indices lo .. hi, nothing written.
FreshArray(lo, hi) == Force([k \in lo - 1 .. hi + 1 |-> Uninit])

\* ZEencodeWord setting the bits of bm from the most significant end.
ZEencodeWord_MsbFirst(st, a, j) ==
  LET val == a.in[st.cnt]
  IN  IF val # 0
        THEN IF a.check /\ st.pos >= a.cap
               THEN [st EXCEPT !.cnt = @ + 1, !.ok = FALSE]
               ELSE [st EXCEPT !.cnt = @ + 1, !.bm = @ + Pow2(a.bits - 1 - j),
                               !.dataout[st.pos] = val, !.pos = @ + 1]
        ELSE [st EXCEPT !.cnt = @ + 1]

\* ZEencodeWord with the capacity test pos > datasize.
ZEencodeWord_OffByOne(st, a, j) ==
  LET val == a.in[st.cnt]
  IN  IF val # 0
        THEN IF a.check /\ st.pos > a.cap
               THEN [st EXCEPT !.cnt = @ + 1, !.ok = FALSE]
               ELSE [st EXCEPT !.cnt = @ + 1, !.bm = @ + Pow2(j),
                               !.dataout[st.pos] = val, !.pos = @ + 1]
        ELSE [st EXCEPT !.cnt = @ + 1]

\* ZEencodeWord appending every word, zero or not, to the dense output.
ZEencodeWord_KeepZeros(st, a, j) ==
  LET val == a.in[st.cnt]
  IN  IF a.check /\ st.pos >= a.cap
        THEN [st EXCEPT !.cnt = @ + 1, !.ok = FALSE]
        ELSE [st EXCEPT !.cnt = @ + 1, !.bm = @ + (IF val # 0 THEN Pow2(j) ELSE 0),
                        !.dataout[st.pos] = val, !.pos = @ + 1]

\* One iteration of an inner loop of h_ZEencode.  st holds pos, cnt, bm, dataout
\* and ok (FALSE once the checked encoder has returned false).
ZEencodeWord(st, a, j) ==
  LET val == a.in[st.cnt]
  IN  IF val # 0
        THEN IF a.check /\ st.pos >= a.cap
               THEN [st EXCEPT !.cnt = @ + 1, !.ok = FALSE]
               ELSE [st EXCEPT !.cnt = @ + 1, !.bm = @ + Pow2(j),
                               !.dataout[st.pos] = val, !.pos = @ + 1]
        ELSE [st EXCEPT !.cnt = @ + 1]

\* The inner loop from j on; the loop of the last subchunk breaks at cnt >= insize.
RECURSIVE ZEencodeGroup(_, _, _, _)
ZEencodeGroup(st, a, j, last) ==
  IF ~st.ok \/ j >= a.bits THEN st
  ELSE IF last /\ st.cnt >= a.insize THEN st
  ELSE ZEencodeGroup(ZEencodeWord(st, a, j), a, j + 1, last)

\* The outer loop over the subchunks i < num - 1, each closed by bmout[i] = bm.
RECURSIVE ZEencodeFull(_, _, _)
ZEencodeFull(st, a, i) ==
  IF ~st.ok \/ i >= NumOf(a.insize, a.bits) - 1 THEN st
  ELSE LET g == ZEencodeGroup([st EXCEPT !.bm = 0], a, 0, FALSE)
       IN  IF g.ok THEN ZEencodeFull([g EXCEPT !.bmout[i] = g.bm], a, i + 1)
                   ELSE g

\* h_ZEencode<T, check>(in, insize, dataout, datasize, bmout) with
\* a = [in, insize, bits, check, cap (datasize on entry), dataout, bmout].
\* cnt is the counter at the return: every read is in[cnt++], so the words
\* read are in[0 .. cnt-1].
h_ZEencode(a) ==
  LET st0 == [pos |-> 0, cnt |-> 0, bm |-> 0, ok |-> TRUE,
              dataout |-> a.dataout, bmout |-> a.bmout]
      st1 == ZEencodeFull(st0, a, 0)
      i == NumOf(a.insize, a.bits) - 1
      st2 == ZEencodeGroup([st1 EXCEPT !.bm = 0], a, 0, TRUE)
  IN  IF ~st1.ok
        THEN [ret |-> FALSE, datasize |-> a.cap, dataout |-> st1.dataout,
              bmout |-> st1.bmout, cnt |-> st1.cnt]
      ELSE IF ~st2.ok
        THEN [ret |-> FALSE, datasize |-> a.cap, dataout |-> st2.dataout,
              bmout |-> st2.bmout, cnt |-> st2.cnt]
      ELSE [ret |-> TRUE, datasize |-> st2.pos, dataout |-> st2.dataout,
            bmout |-> [st2.bmout EXCEPT ![i] = st2.bm], cnt |-> st2.cnt]

\* The word read at index k of an array whose valid indices are lo .. hi: a word
\* never written, or outside the array, is indeterminate (junk).
Load(arr, k, lo, hi, junk) ==
  IF k >= lo /\ k <= hi /\ arr[k] # Uninit THEN arr[k] ELSE junk

\* One iteration of an inner loop of h_ZEdecode.  st holds pos, cnt and out.
ZEdecodeWord(st, a, bm, j) ==
  IF (bm \div Pow2(j)) % 2 # 0
    THEN [st EXCEPT !.out[st.cnt] = Load(a.datain, st.pos, 0, a.dense - 1, a.junk),
                    !.pos = @ + 1, !.cnt = @ + 1]
    ELSE [st EXCEPT !.out[st.cnt] = 0, !.cnt = @ + 1]

\* The inner loop from j on; the loop of the last subchunk breaks after a store
\* once cnt >= decsize.
RECURSIVE ZEdecodeGroup(_, _, _, _, _)
ZEdecodeGroup(st, a, bm, j, last) ==
  IF j >= a.bits THEN st
  ELSE LET n == ZEdecodeWord(st, a, bm, j)
       IN  IF last /\ n.cnt >= a.decsize THEN n
           ELSE ZEdecodeGroup(n, a, bm, j + 1, last)

RECURSIVE ZEdecodeFull(_, _, _)
ZEdecodeFull(st, a, i) ==
  IF i >= NumOf(a.decsize, a.bits) - 1 THEN st
  ELSE ZEdecodeFull(ZEdecodeGroup(st, a, a.bmin[i], 0, FALSE), a, i + 1)

\* h_ZEdecode<T>(decsize, datain, bmin, out) with a = [decsize, bits, datain,
\* dense (the words of datain that were written), bmin, out, junk].  bmread
\* is the set of indices i of the reads bm = bmin[i]: every i < num - 1 of the
\* outer loop, then i = num - 1.
h_ZEdecode(a) ==
  LET num == NumOf(a.decsize, a.bits)
      st1 == ZEdecodeFull([pos |-> 0, cnt |-> 0, out |-> a.out], a, 0)
      bm == Load(a.bmin, num - 1, 0, num - 1, a.junk)
  IN  [out |-> ZEdecodeGroup(st1, a, bm, 0, TRUE).out,
       bmread |-> (0 .. num - 2) \cup { num - 1 }]

(***************************************************************************)
(* Specification SpecZE: a caller encodes an array and, when the encoder   *)
(* returns true, decodes what it produced with decsize = insize.           *)
(***************************************************************************)
MaxN == 9
MaxCap == 3

\* sizeof(T) * 8 for T = uint8_t, uint16_t
WordBits == { 8, 16 }

\* The non-zero word offered at index k of the input.
Sample == << 9, 5, 3, 11, 7, 1, 255, 128, 2, 64, 33, 17 >>

NonZeroAt(k) == IF k < Len(Sample) THEN Sample[k + 1] ELSE k + 1

\* What an indeterminate word may turn out to be.
Junk == { 0, 1 }

InitZE ==
  /\ pc = "ze_input"
  /\ bits \in WordBits
  /\ insize \in 0 .. MaxN
  /\ \E z \in SUBSET (0 .. MaxN - 1) :
       inbuf = Force([k \in 0 .. insize - 1 |-> IF k \in z THEN 0 ELSE NonZeroAt(k)])
  /\ check \in BOOLEAN
  /\ datasize \in IF check THEN 0 .. MaxCap ELSE { insize }
  /\ dataout = FreshArray(0, insize - 1)
  /\ bmout = FreshArray(0, NumOf(insize, bits) - 1)
  /\ out = FreshArray(0, insize - 1)
  /\ ret = FALSE
  /\ cap = datasize
  /\ inread = {} /\ bmread = {}
  /\ BmpIdle /\ ParIdle /\ BitIdle

\* h_ZEencode<T, check>(in, insize, dataout, datasize, bmout)
ZEncode ==
  /\ pc = "ze_input"
  /\ LET r == h_ZEencode([in |-> inbuf, insize |-> insize, bits |-> bits, check |-> check,
                          cap |-> datasize, dataout |-> dataout, bmout |-> bmout])
     IN  /\ ret' = r.ret
         /\ datasize' = r.datasize
         /\ dataout' = r.dataout
         /\ bmout' = r.bmout
         /\ inread' = 0 .. r.cnt - 1
  /\ pc' = "ze_encoded"
  /\ UNCHANGED << bits, check, inbuf, insize, cap, out, bmread,
                  bmpVars, parVars, bitVars >>

\* h_ZEdecode<T>(insize, dataout, bmout, out)
ZDecode ==
  /\ pc = "ze_encoded"
  /\ ret
  /\ \E junk \in Junk :
       LET r == h_ZEdecode([decsize |-> insize, bits |-> bits, datain |-> dataout,
                            dense |-> datasize, bmin |-> bmout, out |-> out,
                            junk |-> junk])
       IN  /\ out' = r.out
           /\ bmread' = r.bmread
  /\ pc' = "ze_decoded"
  /\ UNCHANGED << bits, check, inbuf, insize, dataout, datasize, cap, bmout, ret,
                  inread, bmpVars, parVars, bitVars >>

NextZE == ZEncode \/ ZDecode

SpecZE == InitZE /\ [][NextZE]_vars


(***************************************************************************)
(* Specification SpecPar: h_BMP_BIT with the iterations of the row loop    *)
(* of stage C ("#pragma omp parallel for" over y) taken by workers in any  *)
(* order, interleaved pixel by pixel; the x sweep of a row is serial.      *)
(***************************************************************************)
ParPixels == { << 255, 0, 255 >>, << 10, 20, 30 >> }

HeightOf(d) == h_BMP_BIT_get4(d, 22)

InitPar ==
  /\ pc = "par_input"
  /\ \E d \in Dims : \E img \in [0 .. d[1] * d[2] - 1 -> ParPixels] :
       data = Buffer(ValidHeader(d[1], d[2]), 54 + d[2] * WidthOf(d[1]), img, 0)
  /\ size = Length(data)
  /\ orig = data
  /\ before = data
  /\ tmp = NoTemp
  /\ warned = FALSE
  /\ rowx = << >> /\ rowp = << >>
  /\ BitIdle /\ ZeIdle

\* Entry, validation, neutralisation and the allocation of temp.
ParBegin ==
  /\ pc = "par_input"
  /\ IF size >= 54 /\ Supported(size, data)
       THEN LET w == h_BMP_BIT_get4(data, 18)
                h == h_BMP_BIT_get4(data, 22)
            IN  /\ data' = Neutralise(data)
                /\ tmp' = FreshTemp(NewsizeOf(w, h))
                /\ rowx' = [y \in 0 .. h - 1 |-> -1]
                /\ rowp' = [y \in 0 .. h - 1 |-> << 0, 0, 0 >>]
                /\ warned' = FALSE
                /\ pc' = "par_rows"
       ELSE /\ warned' = TRUE
            /\ pc' = "par_done"
            /\ UNCHANGED << data, tmp, rowx, rowp >>
  /\ UNCHANGED << size, orig, before, bitVars, zeVars >>

\* A worker starts iteration y: it loads the predictor.
RowBegin(y) ==
  /\ pc = "par_rows"
  /\ rowx[y] = -1
  /\ rowp' = [rowp EXCEPT ![y] = RowPredictor(data, WidthOf(h_BMP_BIT_get4(data, 18)), y)]
  /\ rowx' = [rowx EXCEPT ![y] = 0]
  /\ UNCHANGED << pc, bmpVars, bitVars, zeVars >>

\* The worker of iteration y runs one iteration of its x loop.
RowPixel(y) ==
  /\ pc = "par_rows"
  /\ rowx[y] >= 0
  /\ rowx[y] < h_BMP_BIT_get4(data, 18)
  /\ LET w == h_BMP_BIT_get4(data, 18)
         h == HeightOf(data)
         px == ReadPixel(data, WidthOf(w), y, rowx[y])
     IN  /\ tmp' = WriteResidual(tmp, NewsizeOf(w, h), y, rowx[y], h, Residual(px, rowp[y]))
         /\ rowp' = [rowp EXCEPT ![y] = px]
  /\ rowx' = [rowx EXCEPT ![y] = @ + 1]
  /\ UNCHANGED << pc, size, data, warned, orig, before, bitVars, zeVars >>

\* All iterations are done: the rest of the call (stage D, leftover, padding).
ParFinish ==
  /\ pc = "par_rows"
  /\ \A y \in DOMAIN rowx : rowx[y] = h_BMP_BIT_get4(data, 18)
  /\ data' = Layout(data, tmp, h_BMP_BIT_get4(data, 18), HeightOf(data),
                    WidthOf(h_BMP_BIT_get4(data, 18)))
  /\ pc' = "par_done"
  /\ UNCHANGED << size, tmp, warned, orig, before, parVars, bitVars, zeVars >>

NextPar ==
  \/ ParBegin
  \/ \E y \in DOMAIN rowx : RowBegin(y)
  \/ \E y \in DOMAIN rowx : RowPixel(y)
  \/ ParFinish

SpecPar == InitPar /\ [][NextPar]_vars

(***************************************************************************)
(* Specification SpecBit: the three-layer butterfly applied to one word.   *)
(***************************************************************************)
\* Byte i of the words offered: zero, the single bit 0x80 >> i, or all ones.
DiagByte(i) == Pow2(7 - i)

ByteChoices(i) == { 0, DiagByte(i), 255 }

InitBit ==
  /\ pc = "bit_input"
  /\ \E b0 \in ByteChoices(0), b1 \in ByteChoices(1), b2 \in ByteChoices(2),
        b3 \in ByteChoices(3), b4 \in ByteChoices(4), b5 \in ByteChoices(5),
        b6 \in ByteChoices(6), b7 \in ByteChoices(7) :
       x64 = Force([i \in 0 .. 7 |-> << b0, b1, b2, b3, b4, b5, b6, b7 >>[i + 1]])
  /\ y64 = << >>
  /\ BmpIdle /\ ParIdle /\ ZeIdle

\* x = temp[pos / 8]; the three layers; the bytes x >> (i * 8).
Transpose ==
  /\ pc = "bit_input"
  /\ LET x == Butterfly(WordOf(x64))
     IN  y64' = Force([i \in 0 .. 7 |-> ByteOfWord(x, i)])
  /\ pc' = "bit_done"
  /\ UNCHANGED << x64, bmpVars, parVars, zeVars >>

NextBit == Transpose

SpecBit == InitBit /\ [][NextBit]_vars

(***************************************************************************)
(* Specification SpecInv: a caller hands h_iBMP_BIT a buffer with a        *)
(* neutralised header whose length need not be the one its width and       *)
(* height call for.  data is the memory from the buffer's first byte on:   *)
(* only the indices below size belong to the buffer.                       *)
(***************************************************************************)
\* The indices of data that h_iBMP_BIT reads or writes once its check has
\* passed: the header, the strided bytes gathered by iBIT_1, the leftover
\* bytes, the first column, the other columns, the padding.
iAccessed(w, h, width) ==
  LET csize == NewsizeOf(w, h) * 3
      extra == csize % 8
      groups == (csize - extra) \div 8
  IN       (0 .. 53)
      \cup { Bmp(SlabIndex(p[1], p[2], groups)) : p \in (0 .. groups - 1) \X (0 .. 7) }
      \cup { Bmp(csize - extra + i) : i \in 0 .. extra - 1 }
      \cup { Bmp(p[1] * width + p[2]) : p \in (0 .. h - 1) \X (0 .. 2) }
      \cup { Bmp(p[1] * width + p[2] * 3 + p[3]) :
               p \in (0 .. h - 1) \X (1 .. w - 1) \X (0 .. 2) }
      \cup (IF PadOf(w) > 0
              THEN { Bmp(p[1] * width + p[2]) : p \in (0 .. h - 1) \X (w * 3 .. width - 1) }
              ELSE {})

\* The length 54 + h * width that the width and height of a header call for.
DeclaredLength(w, h) == 54 + h * WidthOf(w)

\* How far the size handed to h_iBMP_BIT is from the declared length.
MaxShort == 4

\* The sizes offered for a w x h image: the declared length, up to MaxShort
\* bytes less or more, and the bare header.
InvSizes(w, h) ==
  { 54 } \cup { n \in DeclaredLength(w, h) - MaxShort .. DeclaredLength(w, h) + MaxShort :
                  n >= 54 }

\* What the memory behind the buffer holds.
Behind == { 0, 171 }

\* The memory image: an encoded w x h image cut or extended to sz bytes,
\* followed by memory that is not the buffer's.
InvMemory(enc, sz, len, junk) ==
  Force([i \in 0 .. (IF sz > len THEN sz ELSE len) - 1 |->
           IF i < sz /\ i < len THEN enc[i] ELSE IF i < sz THEN 0 ELSE junk])

InitInv ==
  /\ pc = "inv_input"
  /\ \E d \in Dims : \E img \in [0 .. d[1] * d[2] - 1 -> ParPixels] :
       \E sz \in InvSizes(d[1], d[2]) : \E junk \in Behind :
         /\ size = sz
         /\ data = InvMemory(
                     h_BMP_BIT(DeclaredLength(d[1], d[2]),
                               Buffer(ValidHeader(d[1], d[2]), DeclaredLength(d[1], d[2]),
                                      img, 0)).data,
                     sz, DeclaredLength(d[1], d[2]), junk)
  /\ orig = data
  /\ before = data
  /\ tmp = NoTemp
  /\ warned = FALSE
  /\ ParIdle /\ BitIdle /\ ZeIdle

\* The call passes the size test and the header check.
InvProceeds == size >= 54 /\ iSupported(size, data)

\* Some access of the call lies outside the buffer.
InvOutside ==
  \E i \in iAccessed(h_BMP_BIT_get4(data, 18), h_BMP_BIT_get4(data, 22),
                     WidthOf(h_BMP_BIT_get4(data, 18))) : i >= size

\* h_iBMP_BIT(size, data) runs to its end; accesses outside the buffer, if
\* any, land in the memory behind it.
InvCall ==
  /\ pc = "inv_input"
  /\ LET r == h_iBMP_BIT(size, data)
     IN  /\ data' = r.data
         /\ tmp' = r.tmp
         /\ warned' = r.warned
  /\ before' = data
  /\ pc' = "inv_done"
  /\ UNCHANGED << size, orig, parVars, bitVars, zeVars >>

\* h_iBMP_BIT(size, data) is stopped by the first access outside the buffer
\* (the memory behind it is not mapped).
InvFault ==
  /\ pc = "inv_input"
  /\ InvProceeds
  /\ InvOutside
  /\ before' = data
  /\ pc' = "inv_fault"
  /\ UNCHANGED << size, data, tmp, warned, orig, parVars, bitVars, zeVars >>

NextInv == InvCall \/ InvFault

SpecInv == InitInv /\ [][NextInv]_vars

(***************************************************************************)
(* Specification SpecWrap: h_BMP_BIT on short buffers whose header stores  *)
(* a width or a height large enough for w * 3, h * width or w * h to wrap  *)
(* on int32_t, next to buffers of small images.                            *)
(***************************************************************************)
\* The longest buffer offered.
MaxWrapSize == 66

\* Widths and heights: small ones, and ones whose products wrap.
\* 3 * 1431655766 = 2^32 + 2, 3 * 1431655767 = 2^32 + 5, 4 * 2^30 = 2^32.
WrapWidths == { 1, 2, 3, 4, 1431655766, 1431655767, 1073741824 }

WrapHeights == { 1, 2, 3, 4, 1073741824, 1073741825 }

\* A buffer of len bytes: the header f, then bytes of value fill.
WrapBuffer(f, len, fill) ==
  Force([i \in 0 .. len - 1 |-> IF i < 54 THEN HeaderByte(f, i) ELSE fill])

InitWrap ==
  /\ pc = "wrap_input"
  /\ \E w \in WrapWidths : \E h \in WrapHeights :
       \E sz \in 54 .. MaxWrapSize : \E fill \in PadVals \cup { 7 } :
         /\ size = sz
         /\ data = WrapBuffer(ValidHeader(w, h), sz, fill)
  /\ orig = data
  /\ before = data
  /\ tmp = NoTemp
  /\ warned = FALSE
  /\ ParIdle /\ BitIdle /\ ZeIdle

\* The call passes the size test and the validator.
WrapProceeds == size >= 54 /\ Supported(size, data)

\* Every access of the row loop and of the stages after it is inside the
\* scratch allocation and inside data: the last pixel byte of the last row
\* is below size - 54 and the scratch planes hold 3 * w * h bytes.  The
\* comparisons are ordered so that no product here exceeds size.
WrapInside(sz, w, h) ==
  /\ w <= (sz - 54) \div 3
  /\ h - 1 <= (sz - 54) \div WidthOf(w)
  /\ (h - 1) * WidthOf(w) + 3 * w <= sz - 54
  /\ 3 * w * h <= TempBytes(NewsizeOf(w, h))

\* h_BMP_BIT(size, data) on a buffer it rejects, or on one it accepts and
\* transforms inside its allocations.
WrapCall ==
  /\ pc = "wrap_input"
  /\ WrapProceeds => WrapInside(size, h_BMP_BIT_get4(data, 18), h_BMP_BIT_get4(data, 22))
  /\ LET r == h_BMP_BIT(size, data)
     IN  /\ data' = r.data
         /\ tmp' = r.tmp
         /\ warned' = r.warned
  /\ before' = data
  /\ pc' = "wrap_done"
  /\ UNCHANGED << size, orig, parVars, bitVars, zeVars >>

\* h_BMP_BIT(size, data) accepts the buffer and is stopped: the allocation
\* of a negative count fails, or an access beyond the scratch array or
\* beyond data reaches memory that is not mapped.
WrapFault ==
  /\ pc = "wrap_input"
  /\ WrapProceeds
  /\ ~WrapInside(size, h_BMP_BIT_get4(data, 18), h_BMP_BIT_get4(data, 22))
  /\ before' = data
  /\ pc' = "wrap_fault"
  /\ UNCHANGED << size, data, tmp, warned, orig, parVars, bitVars, zeVars >>

\* h_BMP_BIT(size, data) accepts the buffer, the allocation succeeds and the
\* loops run on beyond the scratch array and beyond data; what the pixel
\* area holds afterwards is not determined.
WrapOverrun ==
  /\ pc = "wrap_input"
  /\ WrapProceeds
  /\ ~WrapInside(size, h_BMP_BIT_get4(data, 18), h_BMP_BIT_get4(data, 22))
  /\ TempBytes(NewsizeOf(h_BMP_BIT_get4(data, 18), h_BMP_BIT_get4(data, 22))) >= 0
  /\ \E fill \in Behind :
       data' = [i \in DOMAIN data |-> IF i < 54 THEN Neutralise(data)[i] ELSE fill]
  /\ before' = data
  /\ pc' = "wrap_overrun"
  /\ UNCHANGED << size, tmp, warned, orig, parVars, bitVars, zeVars >>

NextWrap == WrapCall \/ WrapFault \/ WrapOverrun

SpecWrap == InitWrap /\ [][NextWrap]_vars

(***************************************************************************)
(* The properties checked.                                                 *)
(***************************************************************************)
\* Width and height as stored at offsets 18 and 22 of a buffer.
WidthField(d) == h_BMP_BIT_get4(d, 18)

HeightField(d) == h_BMP_BIT_get4(d, 22)

\* row_stride = (3 * W + 3) & ~3, in unbounded integers.
RowStride(w) == ((3 * w + 3) \div 4) * 4

\* The set of indices of a buffer that are padding bytes: the last
\* row_stride - 3 * W bytes of each row.
PaddingIndices(d) ==
  { i \in DOMAIN d :
      /\ i >= 54
      /\ (i - 54) % RowStride(WidthField(d)) >= 3 * WidthField(d) }

\* C1: for every buffer B that h_BMP_BIT accepts, h_iBMP_BIT after h_BMP_BIT
\* leaves a buffer equal to B byte for byte, padding bytes included, whatever
\* the padding bytes of B were.
C1_RoundTripIdentity ==
  (pc = "roundtrip" /\ size >= 54 /\ Supported(size, orig)) => data = orig

\* The round trip restores every byte that is not a padding byte, and leaves
\* zero in every padding byte.
RoundTripUpToPadding ==
  (pc = "roundtrip" /\ size >= 54 /\ Supported(size, orig)) =>
    /\ DOMAIN data = DOMAIN orig
    /\ \A i \in DOMAIN data :
         data[i] = IF i \in PaddingIndices(orig) THEN 0 ELSE orig[i]

\* The conditions h_BMP_BIT tests before it transforms a buffer, in unbounded
\* integers.
FwdConditions(sz, d) ==
  /\ sz >= 54
  /\ d[0] = 66 /\ d[1] = 77
  /\ h_BMP_BIT_get4(d, 10) = 54
  /\ h_BMP_BIT_get4(d, 14) = 40
  /\ h_BMP_BIT_get2(d, 26) = 1
  /\ h_BMP_BIT_get2(d, 28) = 24
  /\ h_BMP_BIT_get4(d, 30) = 0
  /\ h_BMP_BIT_get4(d, 46) = 0
  /\ h_BMP_BIT_get4(d, 50) = 0
  /\ WidthField(d) >= 1
  /\ HeightField(d) >= 1
  /\ h_BMP_BIT_get4(d, 2) = 54 + HeightField(d) * RowStride(WidthField(d))
  /\ h_BMP_BIT_get4(d, 34) = HeightField(d) * RowStride(WidthField(d))
  /\ sz = 54 + HeightField(d) * RowStride(WidthField(d))

\* The conditions h_iBMP_BIT tests before it transforms a buffer.
InvConditions(sz, d) ==
  /\ sz >= 54
  /\ d[0] = 0 /\ d[1] = 0
  /\ \A o \in { 2, 10, 14, 30, 34, 46, 50 } : h_BMP_BIT_get4(d, o) = 0
  /\ \A o \in { 26, 28 } : h_BMP_BIT_get2(d, o) = 0
  /\ WidthField(d) >= 1
  /\ HeightField(d) >= 1

\* C2: a call of h_BMP_BIT with size < 54 or a failing validator condition,
\* and a call of h_iBMP_BIT with size < 54 or a failing check, returns with
\* every byte of the buffer and the size unchanged.
C2_NoMutationOnRejection ==
  /\ (pc = "encoded" /\ ~FwdConditions(size, before)) =>
       (data = before /\ size = Length(before))
  /\ (pc \in { "decoded", "roundtrip" } /\ ~InvConditions(size, before)) =>
       (data = before /\ size = Length(before))

\* A forward call rejected by the validator (not by the length test), and an
\* inverse call rejected as well.
C2_Witness ==
  /\ pc = "roundtrip"
  /\ size >= 54
  /\ ~FwdConditions(size, orig)
  /\ ~InvConditions(size, before)
  /\ warned

\* The BMP subset as stated: the conditions tested, and a zero reserved field.
InSubset(sz, d) ==
  /\ FwdConditions(sz, d)
  /\ h_BMP_BIT_get4(d, 6) = 0

\* C3: h_BMP_BIT transforms a buffer only if it is in the stated subset; a
\* buffer that violates one condition, the zero reserved field included, is
\* rejected.
C3_AcceptsOnlySubset ==
  (pc = "encoded" /\ ~warned) => InSubset(size, before)

\* Apart from the reserved field, what h_BMP_BIT transforms is in the subset,
\* and what it rejects is not.
AcceptsExactlyTested ==
  pc = "encoded" => (~warned <=> FwdConditions(size, before))

\* The input words that are not zero, as indices.
NonZeroIndices == { k \in 0 .. insize - 1 : inbuf[k] # 0 }

\* The indices of an array that hold a written word.
Written(arr) == { k \in DOMAIN arr : arr[k] # Uninit }

\* C4: h_ZEencode and then h_ZEdecode with decsize = N yields an output of
\* exactly N words, equal to the input word by word, for every length N.
C4_ZERoundTrip ==
  pc = "ze_decoded" =>
    /\ Written(out) = 0 .. insize - 1
    /\ \A k \in 0 .. insize - 1 : out[k] = inbuf[k]

\* For N >= 1 the round trip writes exactly out[0 .. N-1], equal to the input.
ZERoundTripNonEmpty ==
  (pc = "ze_decoded" /\ insize >= 1) =>
    /\ Written(out) = 0 .. insize - 1
    /\ \A k \in 0 .. insize - 1 : out[k] = inbuf[k]

\* ceil(n / b)
CeilDiv(n, b) == (n + b - 1) \div b

\* Number of bits set in the words 0 .. num-1 of the bitmap.
Popcount ==
  Cardinality({ p \in (0 .. CeilDiv(insize, bits) - 1) \X (0 .. bits - 1) :
                  (bmout[p[1]] \div Pow2(p[2])) % 2 = 1 })

\* C5: after a successful h_ZEencode, bit j of bitmap word i is 1 iff
\* i*b + j < N and in[i*b + j] # 0; the dense output holds the non-zero input
\* words in ascending input order; datasize is their number and the popcount
\* of the bitmap.
C5_EncodingContent ==
  (pc = "ze_encoded" /\ ret) =>
    /\ \A i \in 0 .. CeilDiv(insize, bits) - 1 : \A j \in 0 .. bits - 1 :
         ((bmout[i] \div Pow2(j)) % 2 = 1) <=>
           (i * bits + j < insize /\ inbuf[i * bits + j] # 0)
    /\ \A k \in NonZeroIndices :
         dataout[Cardinality({ m \in NonZeroIndices : m < k })] = inbuf[k]
    /\ datasize = Cardinality(NonZeroIndices)
    /\ datasize = Popcount
    /\ Written(dataout) = 0 .. datasize - 1

\* The uint8_t input [0,5,0,0,7,0,0,0] encoded: bitmap 0x12, dense [5,7].
C5_Witness ==
  /\ pc = "ze_encoded" /\ ret
  /\ bits = 8 /\ insize = 8
  /\ NonZeroIndices = { 1, 4 }
  /\ inbuf[1] = 5 /\ inbuf[4] = 7
  /\ bmout[0] = 18
  /\ datasize = 2 /\ dataout[0] = 5 /\ dataout[1] = 7

\* C6: the checked h_ZEencode called with capacity cap returns false exactly
\* when more than cap input words are non-zero; it never writes dataout at an
\* index >= cap; on failure datasize keeps its entry value.
C6_CheckedCapacity ==
  (pc = "ze_encoded" /\ check) =>
    /\ ret = (Cardinality(NonZeroIndices) <= cap)
    /\ \A k \in Written(dataout) : k < cap
    /\ ~ret => datasize = cap

\* A checked call that filled the whole capacity and then failed.
C6_Witness ==
  /\ pc = "ze_encoded" /\ check /\ ~ret
  /\ cap = 2
  /\ Written(dataout) = { 0, 1 }
  /\ insize = MaxN

\* C8 as stated: the encoded size, ceil(N/b) bitmap words plus the dense
\* length, is smaller than N iff the input contains a zero word.
C8_ReducesIffZeroExists ==
  (pc = "ze_encoded" /\ ret) =>
    ((CeilDiv(insize, bits) + datasize < insize) <=>
       (\E k \in 0 .. insize - 1 : inbuf[k] = 0))

\* C8 amended: the encoded size is ceil(N/b) + N - z for z zero words, hence
\* smaller than N iff z > ceil(N/b).
C8_ReducesIffZerosExceedBitmap ==
  (pc = "ze_encoded" /\ ret) =>
    LET z == Cardinality({ k \in 0 .. insize - 1 : inbuf[k] = 0 })
    IN  /\ CeilDiv(insize, bits) + datasize = CeilDiv(insize, bits) + insize - z
        /\ (CeilDiv(insize, bits) + datasize < insize) <=> (z > CeilDiv(insize, bits))

\* Nine uint8_t words, three of them zero: two bitmap words and six dense words.
C8_Witness ==
  /\ pc = "ze_encoded" /\ ret
  /\ bits = 8 /\ insize = 9
  /\ Cardinality(NonZeroIndices) = 6
  /\ CeilDiv(insize, bits) + datasize = 8

\* The scratch planes of the sequential execution y = 0, 1, .., H-1 on the
\* buffer the call was given.
SequentialTmp ==
  StageC(Neutralise(orig), WidthField(orig), HeightField(orig),
         RowStride(WidthField(orig)))

\* C7: whatever the order and interleaving of the row iterations, the scratch
\* planes end bit-identical to those of the sequential execution; while the
\* rows run, the buffer is not modified and the scratch byte k*W*H + y + x*H
\* has been written, with its sequential value, exactly when row y is past
\* column x; the rest of the call then yields the sequential output.
C7_RowParallelEquivalence ==
  LET W == WidthField(orig)
      H == HeightField(orig)
  IN  /\ pc = "par_rows" =>
           /\ data = Neutralise(orig)
           /\ \A k \in 0 .. 2 : \A y \in 0 .. H - 1 : \A x \in 0 .. W - 1 :
                tmp[k * W * H + y + x * H] =
                  IF rowx[y] > x THEN SequentialTmp[k * W * H + y + x * H]
                                 ELSE Uninit
           /\ \A n \in DOMAIN tmp : n >= 3 * W * H => tmp[n] = Uninit
      /\ (pc = "par_done" /\ ~warned) =>
           /\ tmp = SequentialTmp
           /\ data = h_BMP_BIT(size, orig).data

\* The last row has finished before the first one has started.
C7_Witness ==
  /\ pc = "par_rows"
  /\ HeightField(orig) >= 2 /\ WidthField(orig) >= 2
  /\ rowx[HeightField(orig) - 1] = WidthField(orig)
  /\ rowx[0] = -1
  /\ orig[Bmp(0)] # orig[Bmp(RowStride(WidthField(orig)))]

\* C9: after stage D, for every group g and all i, j in 0..7, bit i of the
\* byte at pixel-region offset g + j*groups equals bit j of tmp[8*g + i]; the
\* extra bytes at offsets 8*groups .. 3*W*H-1 equal the scratch bytes; distinct
\* (group, byte) pairs are stored at distinct offsets inside 0 .. 8*groups-1.
C9_ForwardTransposeLayout ==
  (pc = "encoded" /\ ~warned) =>
    LET csize == 3 * WidthField(orig) * HeightField(orig)
        groups == csize \div 8
        extra == csize % 8
    IN  /\ \A g \in 0 .. groups - 1 : \A i \in 0 .. 7 : \A j \in 0 .. 7 :
             Bit(data[54 + g + j * groups], i) = Bit(tmp[8 * g + i], j)
        /\ \A n \in 8 * groups .. csize - 1 : data[54 + n] = tmp[n]
        /\ \A p, q \in (0 .. groups - 1) \X (0 .. 7) :
             /\ SlabIndex(p[1], p[2], groups) \in 0 .. 8 * groups - 1
             /\ p # q => SlabIndex(p[1], p[2], groups) # SlabIndex(q[1], q[2], groups)

\* An encoded image of at least two groups with leftover bytes, whose first
\* group is not a symmetric bit matrix.
C9_Witness ==
  /\ pc = "encoded" /\ ~warned
  /\ (3 * WidthField(orig) * HeightField(orig)) \div 8 >= 2
  /\ (3 * WidthField(orig) * HeightField(orig)) % 8 >= 1
  /\ \E i, j \in 0 .. 7 : Bit(tmp[i], j) # Bit(tmp[j], i)

\* The word 0x0102040810204080, least significant byte first.
S5Word == [i \in 0 .. 7 |-> DiagByte(i)]

\* C10 as stated: the butterfly maps 0x0102040810204080 to 0xFF00000000000000.
C10_S5YieldsFF ==
  (pc = "bit_done" /\ x64 = S5Word) =>
    y64 = [i \in 0 .. 7 |-> IF i = 7 THEN 255 ELSE 0]

\* C10 amended: the butterfly maps 0x0102040810204080 to itself (bit i of
\* output byte j is bit j of input byte i, and this matrix is symmetric).
C10_S5YieldsItself ==
  (pc = "bit_done" /\ x64 = S5Word) =>
    /\ y64 = S5Word
    /\ \A i, j \in 0 .. 7 : Bit(y64[j], i) = Bit(x64[i], j)

\* The butterfly has been applied to the word of scenario S5.
C10_Witness == pc = "bit_done" /\ x64 = S5Word /\ y64[0] = 128 /\ y64[7] = 1

\* C11: for every length N >= 0, with num = ceil(N/b), a successful
\* h_ZEencode writes exactly the bitmap indices 0 .. num-1 and reads exactly
\* in[0 .. N-1], and h_ZEdecode with decsize = N reads only bitmap indices
\* 0 .. num-1 and writes exactly the output indices 0 .. N-1.
C11_ExactFootprint ==
  /\ (pc \in { "ze_encoded", "ze_decoded" } /\ ret) =>
       /\ Written(bmout) = 0 .. CeilDiv(insize, bits) - 1
       /\ inread = 0 .. insize - 1
  /\ pc = "ze_decoded" =>
       /\ bmread \subseteq 0 .. CeilDiv(insize, bits) - 1
       /\ Written(out) = 0 .. insize - 1

\* The footprint of C11 for the lengths N >= 1, the exact multiples of the
\* word width among them.
FootprintNonEmpty ==
  insize >= 1 =>
    /\ (pc \in { "ze_encoded", "ze_decoded" } /\ ret) =>
         /\ Written(bmout) = 0 .. CeilDiv(insize, bits) - 1
         /\ inread = 0 .. insize - 1
    /\ pc = "ze_decoded" =>
         /\ bmread = 0 .. CeilDiv(insize, bits) - 1
         /\ Written(out) = 0 .. insize - 1

\* For N = 0 the encoder stores bmout[-1] and the decoder loads bmin[-1] and
\* stores out[0].
FootprintEmpty ==
  insize = 0 =>
    /\ pc \in { "ze_encoded", "ze_decoded" } =>
         (ret /\ Written(bmout) = { -1 } /\ inread = {})
    /\ pc = "ze_decoded" => (bmread = { -1 } /\ Written(out) = { 0 })

\* C12: for every buffer B that h_BMP_BIT accepts, whatever its pixel values
\* and its padding bytes, h_iBMP_BIT after h_BMP_BIT agrees with B on the 54
\* header bytes and on every pixel byte at offset 54 + y*row_stride + 3*x + c
\* (0 <= y < H, 0 <= x < W, c in 0..2), and every padding byte of the result
\* is 0.
C12_LosslessHeaderAndPixels ==
  (pc = "roundtrip" /\ size >= 54 /\ Supported(size, orig)) =>
    LET W == WidthField(orig)
        H == HeightField(orig)
        stride == RowStride(WidthField(orig))
    IN  /\ \A i \in 0 .. 53 : data[i] = orig[i]
        /\ \A y \in 0 .. H - 1 : \A x \in 0 .. W - 1 : \A c \in 0 .. 2 :
             data[54 + y * stride + 3 * x + c] = orig[54 + y * stride + 3 * x + c]
        /\ \A y \in 0 .. H - 1 : \A k \in 3 * W .. stride - 1 :
             data[54 + y * stride + k] = 0

\* A round trip of an accepted image with non-zero padding whose second pixel
\* gives the residuals 510 and -510 before TCMS: (255,0,255) then (0,255,0),
\* and the reverse in another place.
C12_Witness ==
  /\ pc = "roundtrip" /\ size >= 54 /\ Supported(size, orig)
  /\ WidthField(orig) >= 2
  /\ PaddingIndices(orig) # {}
  /\ \A i \in PaddingIndices(orig) : orig[i] = 171
  /\ << orig[54], orig[55], orig[56] >> = << 0, 255, 0 >>
  /\ << orig[57], orig[58], orig[59] >> = << 255, 0, 255 >>
  /\ \A i \in PaddingIndices(orig) : data[i] = 0

\* C13: whenever h_iBMP_BIT passes its header check and transforms the
\* buffer, every index of data it reads or writes is below size; the decoder
\* never proceeds on a buffer whose length differs from 54 + H*row_stride for
\* the W and H stored at offsets 18 and 22.
C13_DecoderMemorySafety ==
  /\ pc # "inv_fault"
  /\ (pc = "inv_done" /\ ~warned) =>
       /\ size = 54 + HeightField(before) * RowStride(WidthField(before))
       /\ \A i \in iAccessed(WidthField(before), HeightField(before),
                             RowStride(WidthField(before))) : i < size
       /\ \A i \in DOMAIN data : i >= size => data[i] = before[i]

\* On a buffer of the declared length, or longer, every access of the decoder
\* is inside the buffer and the memory behind it is left alone.
DecoderSafeOnDeclaredLength ==
  (pc \in { "inv_done", "inv_fault" } /\ ~warned
     /\ size >= 54 + HeightField(before) * RowStride(WidthField(before))) =>
    /\ pc = "inv_done"
    /\ \A i \in iAccessed(WidthField(before), HeightField(before),
                          RowStride(WidthField(before))) : i < size
    /\ \A i \in DOMAIN data : i >= size => data[i] = before[i]

\* The decoder proceeds on exactly the buffers whose size is at least 54 and
\* whose header passes the check, whatever their length.
DecoderProceedsOnAnyLength ==
  pc \in { "inv_done", "inv_fault" } =>
    (~warned <=> InvConditions(size, before))

\* The size equation size = 54 + H * ((3*W+3) & ~3) in unbounded integers,
\* for W, H >= 1 and 54 <= size < 2^31: a balanced equation bounds W and H
\* by size, so the products are formed only when they are at most size.
ExactSizeEquation(sz, W, H) ==
  /\ W <= (sz - 54) \div 3
  /\ H <= (sz - 54) \div RowStride(W)
  /\ sz = 54 + H * RowStride(W)

\* The scratch allocation of b bytes holds 3 * W * H bytes, in unbounded
\* integers, for W, H >= 1.
ScratchHolds(b, W, H) ==
  /\ b >= 0
  /\ W <= b \div 3
  /\ H <= (b \div 3) \div W

\* C14: with w*3, the row stride, h*width, 54 + h*width and w*h computed on
\* 32-bit two's-complement integers, every buffer h_BMP_BIT accepts satisfies
\* size = 54 + H * ((3*W+3) & ~3) in unbounded integers, its scratch
\* allocation holds 3*W*H bytes and every pixel index of the row loop is below
\* size - 54; no W, H >= 1 whose products wrap is accepted.
C14_ValidatorSoundUnderWraparound ==
  /\ pc \notin { "wrap_fault", "wrap_overrun" }
  /\ (pc = "wrap_done" /\ ~warned) =>
       /\ ExactSizeEquation(size, WidthField(before), HeightField(before))
       /\ ScratchHolds(TempBytes(NewsizeOf(WidthField(before), HeightField(before))),
                       WidthField(before), HeightField(before))
       /\ \A y \in 0 .. HeightField(before) - 1 :
            \A x \in 0 .. WidthField(before) - 1 : \A c \in 0 .. 2 :
              y * RowStride(WidthField(before)) + 3 * x + c < size - 54

\* When the width and the height are small enough for no product to wrap
\* (3*W + 3 and 54 + H*row_stride below 2^31), an accepted buffer satisfies the size equation in unbounded integers, and the
\* call is neither stopped nor runs outside its allocations.
ValidatorSoundWithoutWrap ==
  (pc \in { "wrap_done", "wrap_fault", "wrap_overrun" } /\ ~warned
     /\ WidthField(before) <= 2147483644 \div 3
     /\ HeightField(before) <= 2147483593 \div RowStride(WidthField(before))) =>
    /\ pc = "wrap_done"
    /\ ExactSizeEquation(size, WidthField(before), HeightField(before))
    /\ ScratchHolds(TempBytes(NewsizeOf(WidthField(before), HeightField(before))),
                    WidthField(before), HeightField(before))

\* Every buffer on which the call is stopped or overruns was accepted with a
\* size equation that balances only modulo 2^32.
WrapAcceptedOnlyModulo ==
  pc \in { "wrap_fault", "wrap_overrun" } =>
    /\ Supported(size, before)
    /\ ~ExactSizeEquation(size, WidthField(before), HeightField(before))

=============================================================================
